---- MODULE Spec2Model ----
(***************************************************************************)
(* A model of the movement scheduler and of the control loop of            *)
(* simpleAgent.py (class MovementScheduler, NaoRobot.live and the task     *)
(* bodies rock_hj, move_hj_to, move_hj_by).                                *)
(*                                                                         *)
(* Execution contexts are the caller's context ("main") and the thread the *)
(* constructor starts ("life").  Every method is cut at the points where   *)
(* the interpreter may switch threads: one step per pass through a loop    *)
(* body, one step per operation on the shared deque.                       *)
(***************************************************************************)
EXTENDS Integers, Sequences, FiniteSets, TLC

\* ------------------------------------------------------------------ bounds
MaxAppends == 2     \* append() calls the caller's context makes
MaxNeed    == 2     \* most steps a move_hj_to task needs to reach its target
MaxRuns    == 3     \* run() calls counted by the fairness scenario
MaxDies    == 2     \* die() calls the caller's context makes
MaxMsgs    == 2     \* messages handed to _send_effector
MaxLen     == 2     \* most characters of a message handed to _send_effector
MaxStr     == 5     \* most characters of an enumerated perceptor message

\* ------------------------------------------------------- values of the code
Threads == {"main", "life"}
Joints  == {"raj1", "laj1"}
NoKey   == "nokey"                     \* the kwargs dict has no key 'hj'
Fns     == {"move_hj_to", "move_hj_by", "rock_hj"}
Cells   == {"done"}                    \* the list done = [False] of a caller
Needs   == 1..MaxNeed

\* An item handed to append.  isList, len, callable, kwDict and thirdList are
\* what the format check reads; fn, hj and third are what the conflict check
\* and run() read.  third is the third element when it is a list: <<>> is the
\* empty list, <<c>> a list whose zeroth element is the cell c.  need is the
\* number of steps after which the body of a move_hj_to task finds the joint
\* within accuracy of its target; id names the list object.
Item(id, fn, hj, len, third, need) ==
    [id |-> id, fn |-> fn, hj |-> hj, len |-> len, third |-> third,
     need |-> need, isList |-> TRUE, callable |-> TRUE, kwDict |-> TRUE,
     thirdList |-> TRUE]

\* The well-formed items the caller's context hands to append: move_hj_to for
\* each joint with and without a completion flag, with an empty flag list,
\* and without the key 'hj'; rock_hj and move_hj_by for each joint.
WellFormed ==
    {Item(0, "move_hj_to", hj, 2, <<>>, nd) : hj \in Joints, nd \in Needs}
    \cup {Item(0, "move_hj_to", "raj1", 3, <<c>>, nd) :
             c \in Cells, nd \in Needs}
    \cup {Item(0, "move_hj_to", "laj1", 3, <<c>>, 1) : c \in Cells}
    \cup {Item(0, "move_hj_to", "raj1", 3, <<>>, 1)}
    \cup {Item(0, "move_hj_to", NoKey, 2, <<>>, 1)}
    \cup {Item(0, "rock_hj", hj, 2, <<>>, 1) : hj \in Joints}
    \cup {Item(0, "move_hj_by", hj, 2, <<>>, 1) : hj \in Joints}

\* Items that break the format in one place.
Malformed ==
    LET base == {it \in WellFormed :
                    it.fn = "move_hj_to" /\ it.hj = "raj1" /\ it.need = 1}
    IN  {[it EXCEPT !.isList = FALSE] : it \in base}
        \cup {[it EXCEPT !.len = 1] : it \in base}
        \cup {[it EXCEPT !.len = 4] : it \in base}
        \cup {[it EXCEPT !.thirdList = FALSE] : it \in {b \in base : b.len = 3}}
        \cup {[it EXCEPT !.callable = FALSE] : it \in base}
        \cup {[it EXCEPT !.kwDict = FALSE] : it \in base}

CallerItems == WellFormed \cup Malformed

NoItem == Item(0, "rock_hj", NoKey, 2, <<>>, 1)

VARIABLES
    queue,      \* msched: the deque of items
    cells,      \* cells[c]: element 0 of the completion-flag list c
    he,         \* he[j]: 0 when the rate commanded to joint j is 0.0, else 1
    alive,      \* NaoRobot.alive
    pc,         \* pc[t]: where context t stands
    inlive,     \* inlive[t]: t is inside live()
    cur,        \* cur[t]: the item run() popped
    n,          \* n[t]: len(self) when run() began
    i,          \* i[t]: passes of run()'s loop completed
    new,        \* new[t]: newitem of the append() in progress
    idx,        \* idx[t]: position of the iterator of "for item in self"
    dirty,      \* dirty[t]: the deque changed since t's iterator was made
    ret,        \* ret[t]: who called append(): "call", "step" or "requeue"
    outcome,    \* outcome[t]: how t's last call ended
    made,       \* made[id]: item id as it was made, and who appended it
    ndone,      \* ndone[id]: times the body of item id has returned "done"
    aborted,    \* some run() call has ended with an exception
    acc,        \* ids in the order append accepted them
    startq,     \* startq[t]: ids in the queue when t's run() began
    stepped,    \* stepped[t]: ids t's run() has stepped, in order
    ncalls,     \* run() calls begun, where the scenario counts them
    nappends,   \* append() calls made by the caller's context
    tmo,        \* the timeout of the die() in progress
    ndies,      \* die() calls made
    nclose,     \* close() calls made on the socket
    wire,       \* bytes written to the connection and not yet read from it
    spc,        \* where _send_effector stands: "idle", "len", "body", "closed"
    smsg,       \* message of the _send_effector in progress
    sleft,      \* lengthMessage[bytesSent:] or bmessage[bytesSent:]
    rpc,        \* where receive_perceptors stands: "idle", "len", "body", "failed"
    rbuf,       \* message of the _receive_message in progress
    rwant,      \* length of the _receive_message in progress
    sentlog,    \* messages handed to _send_effector, in order
    written,    \* every byte written to the connection, in order
    rcvdlog,    \* messages receive_perceptors has decoded, in order
    zeroread,   \* a recv() has returned no bytes
    pmsg,       \* the message the server sends for this perceive()
    ppc,        \* where perceive() stands: "idle", "loop", "done", "raised"
    tree,       \* perceptors: what receive_perceptors() returned
    records,    \* what "for perceptor in perceptors" has still to yield
    gs,         \* gamestate
    hjv,        \* self.hj: joint name -> angle
    sens,       \* readings of gyr, acc and frp
    perr,       \* the exception perceive() raised, or "none"
    ndisp,      \* records dispatched by this perceive()
    margs,      \* the arguments of the move_hj_to call, and the joint's angle
    mhj,        \* self.hj of the planned move, in hundredths of a degree
    mhe,        \* self.he: effector -> rate recorded, in 1/100000 degree
    mcmd,       \* the calls of hinge_joint_effector: effector and rate
    mret        \* what move_hj_to returned or raised, or "none"

shared == <<queue, cells, he, alive>>
locals == <<pc, inlive, cur, n, i, new, idx, dirty, ret, outcome>>
ghosts == <<made, ndone, aborted, acc, startq, stepped, ncalls, nappends>>
dievars == <<tmo, ndies, nclose>>
netvars == <<wire, spc, smsg, sleft, rpc, rbuf, rwant, sentlog, written,
             rcvdlog, zeroread>>
pervars == <<pmsg, ppc, tree, records, gs, hjv, sens, perr, ndisp>>
movevars == <<margs, mhj, mhe, mcmd, mret>>
ext    == <<dievars, netvars, pervars, movevars>>
vars   == <<shared, locals, ghosts, ext>>

Ids(q) == [k \in 1..Len(q) |-> q[k].id]

\* ----------------------------------------------------- MovementScheduler.append

\* Sensitivity variant of the format check: the third element is not looked at.
FormatErrorNoThird(it) ==
    IF ~it.isList THEN TRUE
    ELSE IF ~(it.len = 2 \/ it.len = 3) THEN TRUE
    ELSE IF ~it.callable THEN TRUE
    ELSE IF ~it.kwDict THEN TRUE
    ELSE FALSE

\* The format check: TRUE when append raises QueueItemError.
FormatError(it) ==
    IF ~it.isList THEN TRUE
    ELSE IF ~(it.len = 2 \/ it.len = 3) THEN TRUE
    ELSE IF it.len = 3 /\ ~it.thirdList THEN TRUE
    ELSE IF ~it.callable THEN TRUE
    ELSE IF ~it.kwDict THEN TRUE
    ELSE FALSE

\* Sensitivity variant of the conflict check: the functions alone decide.
ConflictFnOnly(item, newitem) == item.fn = newitem.fn

\* One pass of the body of "for item in self": TRUE when it raises
\* SchedulerConflict.  A missing key raises KeyError, which is swallowed.
ConflictWith(item, newitem) ==
    IF item.fn = newitem.fn
    THEN IF item.hj = NoKey \/ newitem.hj = NoKey
         THEN FALSE
         ELSE item.hj = newitem.hj
    ELSE FALSE

Ok(at)        == [kind |-> "ok", at |-> at]
Exc(kind, at) == [kind |-> kind, at |-> at]

\* An exception leaves the call in progress: out of run() and live() when it
\* is raised under them.  The thread the constructor started ends with it.
Raise(t, kind, at) ==
    /\ outcome' = [outcome EXCEPT ![t] = Exc(kind, at)]
    /\ pc' = [pc EXCEPT ![t] = IF t = "life" THEN "dead" ELSE "idle"]
    /\ inlive' = [inlive EXCEPT ![t] = FALSE]
    /\ cur' = [cur EXCEPT ![t] = NoItem]
    /\ new' = [new EXCEPT ![t] = NoItem]
    /\ n' = [n EXCEPT ![t] = 0]
    /\ i' = [i EXCEPT ![t] = 0]
    /\ idx' = [idx EXCEPT ![t] = 1]
    /\ dirty' = [dirty EXCEPT ![t] = FALSE]
    /\ ret' = [ret EXCEPT ![t] = "call"]
    /\ aborted' = (aborted \/ at # "call")

\* Every other context's live iterator sees that the deque changed.
Mutated(t) ==
    [u \in Threads |-> IF u # t /\ pc[u] = "iter" THEN TRUE ELSE dirty[u]]

\* The iterator of "for item in self" is made for newitem.
BeginIter(t, it, from) ==
    /\ new' = [new EXCEPT ![t] = it]
    /\ idx' = [idx EXCEPT ![t] = 1]
    /\ dirty' = [dirty EXCEPT ![t] = FALSE]
    /\ ret' = [ret EXCEPT ![t] = from]
    /\ pc' = [pc EXCEPT ![t] = "iter"]

\* append(newitem) called from the caller's context: the format check, then
\* the conflict check begins.
CallAppend(t, it) ==
    /\ pc[t] = "idle"
    /\ nappends < MaxAppends
    /\ nappends' = nappends + 1
    /\ IF FormatError(it)
       THEN /\ Raise(t, "QueueItemError", "call")
            /\ UNCHANGED <<made, ndone>>
       ELSE /\ BeginIter(t, it, "call")
            /\ made' = Append(made, [item |-> it, from |-> "call"])
            /\ ndone' = Append(ndone, 0)
            /\ UNCHANGED <<inlive, cur, n, i, outcome, aborted>>
    /\ startq' = [startq EXCEPT ![t] = <<>>]
    /\ stepped' = [stepped EXCEPT ![t] = <<>>]
    /\ UNCHANGED <<shared, acc, ncalls>>
    /\ UNCHANGED ext

\* Sensitivity variant of the conflict check loop: the item is put into the
\* deque before the conflict is raised.
IterNextEager(t) ==
    /\ pc[t] = "iter"
    /\ IF dirty[t]
       THEN Raise(t, "RuntimeError", ret[t]) /\ UNCHANGED queue
       ELSE IF idx[t] > Len(queue)
       THEN /\ pc' = [pc EXCEPT ![t] = "push"]
            /\ UNCHANGED <<queue, inlive, cur, n, i, new, idx, dirty, ret,
                           outcome, aborted>>
       ELSE IF ConflictWith(queue[idx[t]], new[t])
       THEN /\ Raise(t, "SchedulerConflict", ret[t])
            /\ queue' = Append(queue, new[t])
       ELSE /\ idx' = [idx EXCEPT ![t] = idx[t] + 1]
            /\ UNCHANGED <<queue, pc, inlive, cur, n, i, new, dirty, ret,
                           outcome, aborted>>
    /\ UNCHANGED <<cells, he, alive, made, ndone, acc, startq, stepped,
                   ncalls, nappends>>
    /\ UNCHANGED ext

\* One call of next() on the iterator, and the loop body on what it yields.
IterNext(t) ==
    /\ pc[t] = "iter"
    /\ IF dirty[t]
       THEN Raise(t, "RuntimeError", ret[t])
       ELSE IF idx[t] > Len(queue)
       THEN /\ pc' = [pc EXCEPT ![t] = "push"]
            /\ UNCHANGED <<inlive, cur, n, i, new, idx, dirty, ret, outcome,
                           aborted>>
       ELSE IF ConflictWith(queue[idx[t]], new[t])
       THEN Raise(t, "SchedulerConflict", ret[t])
       ELSE /\ idx' = [idx EXCEPT ![t] = idx[t] + 1]
            /\ UNCHANGED <<pc, inlive, cur, n, i, new, dirty, ret, outcome,
                           aborted>>
    /\ UNCHANGED <<shared, made, ndone, acc, startq, stepped, ncalls,
                   nappends>>
    /\ UNCHANGED ext

\* Where run() goes on after its pass i: the next pass.
NextPass(t) ==
    /\ i' = [i EXCEPT ![t] = i[t] + 1]
    /\ cur' = [cur EXCEPT ![t] = NoItem]
    /\ pc' = [pc EXCEPT ![t] = "pop"]

\* super().append(newitem), and the return of append(): to the caller, to
\* move_hj_by (which then returns "done"), or to run() after a re-append.
Push(t) ==
    /\ pc[t] = "push"
    /\ queue' = Append(queue, new[t])
    /\ dirty' = [Mutated(t) EXCEPT ![t] = FALSE]
    /\ new' = [new EXCEPT ![t] = NoItem]
    /\ idx' = [idx EXCEPT ![t] = 1]
    /\ ret' = [ret EXCEPT ![t] = "call"]
    /\ CASE ret[t] = "call" ->
              /\ pc' = [pc EXCEPT ![t] = "idle"]
              /\ outcome' = [outcome EXCEPT ![t] = Ok("call")]
              /\ acc' = Append(acc, new[t].id)
              /\ UNCHANGED <<cur, i, ndone>>
         [] ret[t] = "step" ->
              /\ pc' = [pc EXCEPT ![t] = "flag"]
              /\ acc' = Append(acc, new[t].id)
              /\ ndone' = [ndone EXCEPT ![cur[t].id] = @ + 1]
              /\ UNCHANGED <<cur, i, outcome>>
         [] ret[t] = "requeue" ->
              /\ NextPass(t)
              /\ UNCHANGED <<outcome, acc, ndone>>
    /\ UNCHANGED <<cells, he, alive, inlive, n, made, aborted, startq,
                   stepped, ncalls, nappends>>
    /\ UNCHANGED ext

\* ------------------------------------------------------- MovementScheduler.run

\* for i in range(len(self)): the number of passes is fixed here.
BeginRun(t) ==
    /\ n' = [n EXCEPT ![t] = Len(queue)]
    /\ i' = [i EXCEPT ![t] = 0]
    /\ startq' = [startq EXCEPT ![t] = Ids(queue)]
    /\ stepped' = [stepped EXCEPT ![t] = <<>>]
    /\ pc' = [pc EXCEPT ![t] = "pop"]

\* run() called from the caller's context.
CallRun(t) ==
    /\ pc[t] = "idle"
    /\ BeginRun(t)
    /\ UNCHANGED <<shared, inlive, cur, new, idx, dirty, ret, outcome,
                   made, ndone, aborted, acc, nappends>>
    /\ UNCHANGED ext

\* Sensitivity variant of popleft(): the item at the back is returned.
Back(q) == q[Len(q)]

\* What popleft() returns.
Front(q) == Head(q)

\* The head of one pass: the loop ends after n passes, else item = popleft().
Pop(t) ==
    /\ pc[t] = "pop"
    /\ IF i[t] >= n[t]
       THEN /\ pc' = [pc EXCEPT ![t] = IF inlive[t] THEN "while" ELSE "idle"]
            /\ outcome' = [outcome EXCEPT ![t] = Ok("run")]
            /\ UNCHANGED <<queue, inlive, cur, n, i, new, idx, dirty, ret,
                           aborted>>
       ELSE IF queue = <<>>
       THEN /\ Raise(t, "IndexError", "pop")
            /\ UNCHANGED queue
       ELSE /\ cur' = [cur EXCEPT ![t] = Front(queue)]
            /\ queue' = Tail(queue)
            /\ dirty' = Mutated(t)
            /\ pc' = [pc EXCEPT ![t] = "step"]
            /\ UNCHANGED <<inlive, n, i, new, idx, ret, outcome, aborted>>
    /\ UNCHANGED <<cells, he, alive, made, ndone, acc, startq, stepped,
                   ncalls, nappends>>
    /\ UNCHANGED ext

\* returnVal = function(**argDict), for each of the three task bodies.  A
\* body called without its required argument hj raises TypeError.  rock_hj
\* commands a rate and never reports done; move_hj_to commands 0.0 and reports
\* done once the joint is within accuracy, else commands a rate; move_hj_by
\* calls append for a new move_hj_to item of the same joint.
Step(t) ==
    /\ pc[t] = "step"
    /\ LET it == cur[t]
       IN  /\ stepped' = [stepped EXCEPT ![t] = Append(stepped[t], it.id)]
           /\ IF it.hj = NoKey
              THEN /\ Raise(t, "TypeError", "step")
                   /\ UNCHANGED <<he, made, ndone>>
              ELSE CASE it.fn = "rock_hj" ->
                          /\ he' = [he EXCEPT ![it.hj] = 1]
                          /\ pc' = [pc EXCEPT ![t] = "requeue"]
                          /\ UNCHANGED <<inlive, cur, n, i, new, idx, dirty,
                                         ret, outcome, made, ndone, aborted>>
                     [] it.fn = "move_hj_to" /\ it.need <= 1 ->
                          /\ he' = [he EXCEPT ![it.hj] = 0]
                          /\ ndone' = [ndone EXCEPT ![it.id] = @ + 1]
                          /\ pc' = [pc EXCEPT ![t] = "flag"]
                          /\ UNCHANGED <<inlive, cur, n, i, new, idx, dirty,
                                         ret, outcome, made, aborted>>
                     [] it.fn = "move_hj_to" /\ it.need > 1 ->
                          /\ he' = [he EXCEPT ![it.hj] = 1]
                          /\ cur' = [cur EXCEPT ![t].need = it.need - 1]
                          /\ pc' = [pc EXCEPT ![t] = "requeue"]
                          /\ UNCHANGED <<inlive, n, i, new, idx, dirty, ret,
                                         outcome, made, ndone, aborted>>
                     [] it.fn = "move_hj_by" ->
                          /\ \E nd \in Needs :
                                LET kw == Item(Len(made) + 1, "move_hj_to",
                                               it.hj, 2, <<>>, nd)
                                IN  /\ BeginIter(t, kw, "step")
                                    /\ made' = Append(made, [item |-> kw,
                                                             from |-> "step"])
                          /\ ndone' = Append(ndone, 0)
                          /\ UNCHANGED <<he, inlive, cur, n, i, outcome,
                                         aborted>>
    /\ UNCHANGED <<queue, cells, alive, acc, startq, ncalls, nappends>>
    /\ UNCHANGED ext

\* if returnVal != "done": self.append(item)
Requeue(t) ==
    /\ pc[t] = "requeue"
    /\ IF FormatError(cur[t])
       THEN Raise(t, "QueueItemError", "requeue")
       ELSE /\ BeginIter(t, cur[t], "requeue")
            /\ UNCHANGED <<inlive, cur, n, i, outcome, aborted>>
    /\ UNCHANGED <<shared, made, ndone, acc, startq, stepped, ncalls,
                   nappends>>
    /\ UNCHANGED ext

\* Sensitivity variant of the flag write: the cell is left as it is.
SetCellNot(cs, third) == cs

\* item[2][0] = True
SetCell(cs, third) == [cs EXCEPT ![third[1]] = TRUE]

\* elif len(item) == 3: item[2][0] = True
SetFlag(t) ==
    /\ pc[t] = "flag"
    /\ IF cur[t].len = 3 /\ cur[t].third = <<>>
       THEN /\ Raise(t, "IndexError", "flag")
            /\ UNCHANGED cells
       ELSE /\ cells' = IF cur[t].len = 3
                        THEN SetCell(cells, cur[t].third)
                        ELSE cells
            /\ NextPass(t)
            /\ UNCHANGED <<inlive, n, new, idx, dirty, ret, outcome, aborted>>
    /\ UNCHANGED <<queue, he, alive, made, ndone, acc, startq, stepped,
                   ncalls, nappends>>
    /\ UNCHANGED ext

\* ---------------------------------------------------------------- NaoRobot.live

\* Where a context goes when live() returns.
Returned(t) == IF t = "life" THEN "exit" ELSE "idle"

\* live() called from the caller's context.
CallLive(t) ==
    /\ pc[t] = "idle"
    /\ pc' = [pc EXCEPT ![t] = "live"]
    /\ UNCHANGED <<shared, inlive, cur, n, i, new, idx, dirty, ret, outcome,
                   ghosts>>
    /\ UNCHANGED ext

\* if self.alive: return
LiveEnter(t) ==
    /\ pc[t] = "live"
    /\ IF alive
       THEN /\ pc' = [pc EXCEPT ![t] = Returned(t)]
            /\ outcome' = [outcome EXCEPT ![t] = Ok("live")]
            /\ UNCHANGED inlive
       ELSE /\ pc' = [pc EXCEPT ![t] = "setalive"]
            /\ inlive' = [inlive EXCEPT ![t] = TRUE]
            /\ UNCHANGED outcome
    /\ UNCHANGED <<shared, cur, n, i, new, idx, dirty, ret, ghosts>>
    /\ UNCHANGED ext

\* self.alive = True
LiveSetAlive(t) ==
    /\ pc[t] = "setalive"
    /\ alive' = TRUE
    /\ pc' = [pc EXCEPT ![t] = "while"]
    /\ UNCHANGED <<queue, cells, he, inlive, cur, n, i, new, idx, dirty, ret,
                   outcome, ghosts>>
    /\ UNCHANGED ext

\* while self.alive:
LiveWhile(t) ==
    /\ pc[t] = "while"
    /\ IF alive
       THEN /\ pc' = [pc EXCEPT ![t] = "perceive"]
            /\ UNCHANGED <<inlive, outcome>>
       ELSE /\ pc' = [pc EXCEPT ![t] = Returned(t)]
            /\ inlive' = [inlive EXCEPT ![t] = FALSE]
            /\ outcome' = [outcome EXCEPT ![t] = Ok("live")]
    /\ UNCHANGED <<shared, cur, n, i, new, idx, dirty, ret, ghosts>>
    /\ UNCHANGED ext

\* self.perceive(): one message is received and dispatched; it changes none
\* of the scheduler's state.
Perceive(t) ==
    /\ pc[t] = "perceive"
    /\ pc' = [pc EXCEPT ![t] = "run"]
    /\ UNCHANGED <<shared, inlive, cur, n, i, new, idx, dirty, ret, outcome,
                   ghosts>>
    /\ UNCHANGED ext

\* self.msched.run() called from the loop of live().
LoopRun(t) ==
    /\ pc[t] = "run"
    /\ BeginRun(t)
    /\ UNCHANGED <<shared, inlive, cur, new, idx, dirty, ret, outcome,
                   made, ndone, aborted, acc, nappends>>
    /\ UNCHANGED ext

\* ------------------------------------------------------------ specifications

NoOutcome == [kind |-> "none", at |-> "none"]

\* The values __str2list builds: an int, a float or a str (text holds its
\* characters; for a number, those that int() or float() read), or a list.
Atom(kind, text) == [kind |-> kind, text |-> text, items |-> <<>>]
List(items) == [kind |-> "list", text |-> <<>>, items |-> items]

\* The state that perceive() writes, as the constructor leaves it.
F0 == Atom("float", <<"0", ".", "0">>)
I0 == Atom("int", <<"0">>)
Zero3 == <<F0, F0, F0>>
JointNames == {<<"r", "l", "j", "3">>, <<"r", "a", "j", "1">>}

InitPerceive(msgs) ==
    /\ pmsg \in msgs
    /\ ppc = "idle"
    /\ tree = List(<<>>)
    /\ records = <<>>
    /\ gs = [time |-> F0, gametime |-> F0, scoreLeft |-> I0,
             scoreRight |-> I0, playmode |-> Atom("str", <<"BeforeKickOff">>)]
    /\ hjv = [j \in {Atom("str", nm) : nm \in JointNames} |-> F0]
    /\ sens = [gyr |-> Zero3, acc |-> Zero3,
               frp |-> [nm \in {<<"r", "f">>, <<"l", "f">>} |->
                          [point |-> Zero3, force |-> Zero3]]]
    /\ perr = "none"
    /\ ndisp = 0

\* The state when the constructor has made the scheduler; lifepc is where the
\* thread of the constructor stands.
InitCore(lifepc) ==
    /\ queue = <<>>
    /\ cells = [c \in Cells |-> FALSE]
    /\ he = [j \in Joints |-> 0]
    /\ alive = FALSE
    /\ pc = [t \in Threads |-> IF t = "main" THEN "idle" ELSE lifepc]
    /\ inlive = [t \in Threads |-> FALSE]
    /\ cur = [t \in Threads |-> NoItem]
    /\ n = [t \in Threads |-> 0]
    /\ i = [t \in Threads |-> 0]
    /\ new = [t \in Threads |-> NoItem]
    /\ idx = [t \in Threads |-> 1]
    /\ dirty = [t \in Threads |-> FALSE]
    /\ ret = [t \in Threads |-> "call"]
    /\ outcome = [t \in Threads |-> NoOutcome]
    /\ made = <<>>
    /\ ndone = <<>>
    /\ aborted = FALSE
    /\ acc = <<>>
    /\ startq = [t \in Threads |-> <<>>]
    /\ stepped = [t \in Threads |-> <<>>]
    /\ ncalls = 0
    /\ nappends = 0
    /\ tmo = "none"
    /\ ndies = 0
    /\ nclose = 0
    /\ wire = <<>>
    /\ spc = "idle"
    /\ smsg = <<>>
    /\ sleft = <<>>
    /\ rpc = "idle"
    /\ rbuf = <<>>
    /\ rwant = 0
    /\ sentlog = <<>>
    /\ written = <<>>
    /\ rcvdlog = <<>>
    /\ zeroread = FALSE

\* The joints of the planned move, their effectors and their ranges in
\* hundredths of a degree.
MoveJoints == {"raj1", "rlj3"}
hjEffector(hj) == IF hj = "raj1" THEN "rae1" ELSE "rle3"
hjMax(hj) == IF hj = "raj1" THEN 12000 ELSE 10000
hjMin(hj) == IF hj = "raj1" THEN -12000 ELSE -2500

\* A keyword argument is <<>> when the call leaves it None, else <<value>>.
None == <<>>
NoArgs == [hj |-> "raj1", angle |-> None, percent |-> None, speed |-> 25,
           cur |-> 0]

\* No move_hj_to is called: the joints stand where the constructor put them.
InitStill ==
    /\ margs = NoArgs
    /\ mhj = [j \in MoveJoints |-> 0]
    /\ mhe = [e \in {hjEffector(j) : j \in MoveJoints} |-> 0]
    /\ mcmd = <<>>
    /\ mret = "none"

\* The constructor's state with no message of the server at hand.
InitWith(lifepc) == InitCore(lifepc) /\ InitPerceive({<<>>}) /\ InitStill

\* A scheduler used by one context, with no thread started.
Init == InitWith("unborn")

\* The steps of append and of run() that context t takes.
SchedStep(t) ==
    \/ IterNext(t)
    \/ Push(t)
    \/ Pop(t)
    \/ Step(t)
    \/ Requeue(t)
    \/ SetFlag(t)

\* One context calls append and run, one call at a time.
Next ==
    \/ \E it \in CallerItems :
          CallAppend("main", [it EXCEPT !.id = Len(made) + 1])
    \/ CallRun("main") /\ UNCHANGED ncalls
    \/ SchedStep("main")

Spec == Init /\ [][Next]_vars

\* The fairness scenario: items are appended, then run() is called up to
\* MaxRuns times, and the calls are counted.
NextFair ==
    \/ /\ ncalls = 0
       /\ \E it \in CallerItems :
             CallAppend("main", [it EXCEPT !.id = Len(made) + 1])
    \/ /\ ncalls < MaxRuns
       /\ CallRun("main")
       /\ ncalls' = ncalls + 1
    \/ SchedStep("main")

SpecFair == Init /\ [][NextFair]_vars

\* The agent after line 605 of the constructor: the thread runs live(), the
\* caller's context calls append (as lines 608-609 do) and may call live().
InitConc == InitWith("live")

\* What the caller appends beside the running loop: move_hj_to items on a
\* joint, as lines 608-609 do, with or without a flag cell.
ConcItems ==
    {it \in WellFormed :
        it.fn = "move_hj_to" /\ it.hj \in Joints /\ it.third # <<>>}
    \cup {it \in WellFormed :
        it.fn = "move_hj_to" /\ it.hj \in Joints /\ it.len = 2}

LiveStep(t) ==
    \/ LiveEnter(t)
    \/ LiveSetAlive(t)
    \/ LiveWhile(t)
    \/ Perceive(t)
    \/ LoopRun(t) /\ UNCHANGED ncalls

NextConc ==
    \/ \E it \in ConcItems :
          CallAppend("main", [it EXCEPT !.id = Len(made) + 1])
    \/ CallLive("main")
    \/ \E t \in Threads : LiveStep(t) \/ SchedStep(t)

SpecConc == InitConc /\ [][NextConc]_vars

\* What the caller appends for the loop of the thread: move_hj_to items that
\* complete after some steps, one of them with a kwargs dict that lacks 'hj'.
LoopItems ==
    {it \in WellFormed :
        it.fn = "move_hj_to" /\ it.len = 2 /\ it.hj \in {"raj1", NoKey}}

\* The agent after line 605: the thread runs live() and the caller's context
\* appends items.
NextLoop ==
    \/ \E it \in LoopItems :
          CallAppend("main", [it EXCEPT !.id = Len(made) + 1])
    \/ SchedStep("main")
    \/ LiveStep("life")
    \/ SchedStep("life")

SpecLoop == InitConc /\ [][NextLoop]_vars

\* ----------------------------------------------------------------- NaoRobot.die

\* die(timeout) called from the caller's context: start and timeleft are
\* computed; with timeout 0 the loop of line 638 is not entered.
CallDie(t) ==
    /\ pc[t] = "idle"
    /\ ndies < MaxDies
    /\ ndies' = ndies + 1
    /\ \E tm \in {"zero", "running"} :
          /\ tmo' = tm
          /\ pc' = [pc EXCEPT ![t] = IF tm = "zero" THEN "diestop"
                                                   ELSE "diewait"]
    /\ UNCHANGED <<shared, inlive, cur, n, i, new, idx, dirty, ret, outcome,
                   ghosts, nclose>>
    /\ UNCHANGED <<netvars, pervars, movevars>>

\* while timeleft > 0 finds that the timeout has expired.
DieExpire(t) ==
    /\ pc[t] = "diewait"
    /\ tmo' = "expired"
    /\ pc' = [pc EXCEPT ![t] = "diestop"]
    /\ UNCHANGED <<shared, inlive, cur, n, i, new, idx, dirty, ret, outcome,
                   ghosts, ndies, nclose>>
    /\ UNCHANGED <<netvars, pervars, movevars>>

\* One pass of the loop with time left: if len(self.msched) == 0 the loop is
\* told to stop and the wait ends, else timeleft is computed again.
DieCheck(t) ==
    /\ pc[t] = "diewait"
    /\ IF Len(queue) = 0
       THEN /\ alive' = FALSE
            /\ pc' = [pc EXCEPT ![t] = "diestop"]
       ELSE UNCHANGED <<alive, pc>>
    /\ UNCHANGED <<queue, cells, he, inlive, cur, n, i, new, idx, dirty, ret,
                   outcome, ghosts, dievars>>
    /\ UNCHANGED <<netvars, pervars, movevars>>

\* self.alive = False
DieStop(t) ==
    /\ pc[t] = "diestop"
    /\ alive' = FALSE
    /\ pc' = [pc EXCEPT ![t] = "join"]
    /\ UNCHANGED <<queue, cells, he, inlive, cur, n, i, new, idx, dirty, ret,
                   outcome, ghosts, dievars>>
    /\ UNCHANGED <<netvars, pervars, movevars>>

\* Sensitivity variant of join(): it returns at once.
JoinNoWait == TRUE

\* What join() waits for: the thread has returned from live() or has ended
\* with an exception.
Joined == pc["life"] \in {"exit", "dead"}

\* self.lifeThread.join() returns once the thread has ended.
DieJoin(t) ==
    /\ pc[t] = "join"
    /\ Joined
    /\ pc' = [pc EXCEPT ![t] = "close"]
    /\ UNCHANGED <<shared, inlive, cur, n, i, new, idx, dirty, ret, outcome,
                   ghosts, dievars>>
    /\ UNCHANGED <<netvars, pervars, movevars>>

\* self.pns.socket.close(), and die() returns.
DieClose(t) ==
    /\ pc[t] = "close"
    /\ nclose' = nclose + 1
    /\ tmo' = "none"
    /\ pc' = [pc EXCEPT ![t] = "idle"]
    /\ outcome' = [outcome EXCEPT ![t] = Ok("die")]
    /\ UNCHANGED <<shared, inlive, cur, n, i, new, idx, dirty, ret, ghosts,
                   ndies>>
    /\ UNCHANGED <<netvars, pervars, movevars>>

DieStep(t) ==
    \/ DieExpire(t)
    \/ DieCheck(t)
    \/ DieStop(t)
    \/ DieJoin(t)
    \/ DieClose(t)

\* What the caller appends before it calls die(): tasks on one joint that
\* complete after some steps, or never.
DieItems ==
    {it \in WellFormed :
        it.hj = "raj1" /\ it.len = 2 /\ it.fn \in {"move_hj_to", "rock_hj"}}

\* The agent after line 605: the thread runs live(); the caller's context
\* appends items and calls die().
NextDie ==
    \/ \E it \in DieItems :
          CallAppend("main", [it EXCEPT !.id = Len(made) + 1])
    \/ CallDie("main")
    \/ DieStep("main")
    \/ SchedStep("main")
    \/ LiveStep("life")
    \/ SchedStep("life")

\* The thread is scheduled, the server keeps sending (perceive returns), the
\* clock advances, and the caller's context goes on inside die().
SpecDie ==
    /\ InitConc
    /\ [][NextDie]_vars
    /\ WF_vars(LiveStep("life") \/ SchedStep("life"))
    /\ WF_vars(DieExpire("main") \/ DieStop("main") \/ DieJoin("main")
                  \/ DieClose("main"))

\* ------------------------------------------------------ PNS: the transport

\* The characters messages are made of, and their ASCII codes.
Digits == {"0", "1", "2", "3", "5"}
Letters == {"a", "b", "e", "i", "j", "l", "m", "n", "o", "r", "t", "w", "x",
            "H", "J", "S"}
Chars == {"(", ")", " ", ".", "-"} \cup Digits \cup Letters

Ascii(c) ==
    CASE c = "(" -> 40
      [] c = ")" -> 41
      [] c = " " -> 32
      [] c = "." -> 46
      [] c = "-" -> 45
      [] c = "0" -> 48
      [] c = "1" -> 49
      [] c = "2" -> 50
      [] c = "3" -> 51
      [] c = "5" -> 53
      [] c = "H" -> 72
      [] c = "J" -> 74
      [] c = "S" -> 83
      [] c = "a" -> 97
      [] c = "b" -> 98
      [] c = "e" -> 101
      [] c = "i" -> 105
      [] c = "j" -> 106
      [] c = "l" -> 108
      [] c = "m" -> 109
      [] c = "n" -> 110
      [] c = "o" -> 111
      [] c = "r" -> 114
      [] c = "t" -> 116
      [] c = "w" -> 119
      [] c = "x" -> 120

\* bytes(message, 'ASCII') and str(perceptors, 'ASCII')
Encode(m) == [k \in 1..Len(m) |-> Ascii(m[k])]
Decode(b) == [k \in 1..Len(b) |-> CHOOSE c \in Chars : Ascii(c) = b[k]]

\* Sensitivity variant of the length prefix: least significant byte first.
PackLittle(len) ==
    <<len % 256, (len \div 256) % 256, (len \div 65536) % 256,
      (len \div 16777216) % 256>>

\* struct.pack("!I", length) and struct.unpack("!I", length)[0]
Pack(len) ==
    <<(len \div 16777216) % 256, (len \div 65536) % 256,
      (len \div 256) % 256, len % 256>>

Unpack(b) == b[1] * 16777216 + b[2] * 65536 + b[3] * 256 + b[4]

\* The messages handed to _send_effector.
PayChars == {"a", "b"}
Payloads == UNION {[1..k -> PayChars] : k \in 0..MaxLen}

nonet == <<shared, locals, ghosts, dievars, pervars, movevars>>

\* _send_effector(message) up to the first send(): the length is packed.
CallSend(m) ==
    /\ spc = "idle"
    /\ Len(sentlog) < MaxMsgs
    /\ smsg' = m
    /\ sleft' = Pack(Len(m))
    /\ spc' = "len"
    /\ sentlog' = Append(sentlog, m)
    /\ UNCHANGED <<wire, rpc, rbuf, rwant, written, rcvdlog, zeroread, nonet>>

\* One call of self.socket.send(): the socket takes k bytes of what is left.
\* When the length is out, the message follows; when that is out (or is
\* empty), _send_effector returns.
SendChunk ==
    /\ spc \in {"len", "body"}
    /\ \E k \in 1..Len(sleft) :
          LET rest == SubSeq(sleft, k + 1, Len(sleft))
          IN  /\ wire' = wire \o SubSeq(sleft, 1, k)
              /\ written' = written \o SubSeq(sleft, 1, k)
              /\ IF rest # <<>>
                 THEN sleft' = rest /\ UNCHANGED <<spc, smsg>>
                 ELSE IF spc = "len" /\ Len(smsg) > 0
                 THEN sleft' = Encode(smsg) /\ spc' = "body" /\ UNCHANGED smsg
                 ELSE sleft' = <<>> /\ spc' = "idle" /\ smsg' = <<>>
    /\ UNCHANGED <<rpc, rbuf, rwant, sentlog, rcvdlog, zeroread, nonet>>

\* The sending end closes the connection, between or inside messages.
SenderClose ==
    /\ spc # "closed"
    /\ spc' = "closed"
    /\ UNCHANGED <<wire, smsg, sleft, rpc, rbuf, rwant, sentlog, written,
                   rcvdlog, zeroread, nonet>>

\* receive_perceptors() up to the first recv(): _receive_message(4) begins.
CallReceive ==
    /\ rpc = "idle"
    /\ rpc' = "len"
    /\ rbuf' = <<>>
    /\ rwant' = 4
    /\ UNCHANGED <<wire, spc, smsg, sleft, sentlog, written, rcvdlog,
                   zeroread, nonet>>

\* The str object '' that line 91 compares nextBytes with.
EmptyStr == [type |-> "str", data |-> <<>>]

\* What recv(want) can return: some bytes of the wire, or no bytes once the
\* sending end has closed and the wire is empty (else recv blocks).
RecvResults(want) ==
    IF wire # <<>>
    THEN {SubSeq(wire, 1, k) :
             k \in 1..(IF want < Len(wire) THEN want ELSE Len(wire))}
    ELSE IF spc = "closed" THEN {<<>>} ELSE {}

\* One pass of the loop of _receive_message: recv(), the test of line 91, and
\* message += nextBytes.  When the length has arrived it is unpacked and
\* _receive_message(length) begins; when the message has arrived (or its
\* length is 0) it is decoded.
Recv ==
    /\ rpc \in {"len", "body"}
    /\ \E chunk \in RecvResults(rwant - Len(rbuf)) :
          LET nextBytes == [type |-> "bytes", data |-> chunk]
              message == rbuf \o chunk
          IN  /\ wire' = SubSeq(wire, Len(chunk) + 1, Len(wire))
              /\ zeroread' = (zeroread \/ chunk = <<>>)
              /\ IF nextBytes = EmptyStr
                 THEN /\ rpc' = "failed"
                      /\ UNCHANGED <<rbuf, rwant, rcvdlog>>
                 ELSE IF Len(message) < rwant
                 THEN /\ rbuf' = message
                      /\ UNCHANGED <<rpc, rwant, rcvdlog>>
                 ELSE IF rpc = "len" /\ Unpack(message) > 0
                 THEN /\ rpc' = "body"
                      /\ rwant' = Unpack(message)
                      /\ rbuf' = <<>>
                      /\ UNCHANGED rcvdlog
                 ELSE /\ rcvdlog' = Append(rcvdlog,
                             Decode(IF rpc = "len" THEN <<>> ELSE message))
                      /\ rpc' = "idle"
                      /\ rbuf' = <<>>
                      /\ rwant' = 0
    /\ UNCHANGED <<spc, smsg, sleft, sentlog, written, nonet>>

\* A loop-back pair: what _send_effector writes, receive_perceptors reads.
NextNet ==
    \/ \E m \in Payloads : CallSend(m)
    \/ SendChunk
    \/ SenderClose
    \/ CallReceive
    \/ Recv

SpecNet == Init /\ [][NextNet]_vars

\* ----------------------------------------------------------- PNS.__str2list

bra == "("
ket == ")"
space == " "
nonword == {space, bra, ket}

\* string[b:e]
Slice(string, b, e) == SubSeq(string, b + 1, e)

\* word.strip(), which int() and float() apply to their argument.
RECURSIVE Strip(_)
Strip(w) ==
    IF w = <<>> THEN w
    ELSE IF Head(w) = space THEN Strip(Tail(w))
    ELSE IF w[Len(w)] = space THEN Strip(SubSeq(w, 1, Len(w) - 1))
    ELSE w

Unsigned(w) == IF w # <<>> /\ Head(w) = "-" THEN Tail(w) ELSE w

\* int(word) succeeds.  The characters of the model hold no underscore.
IsInt(word) ==
    LET u == Unsigned(Strip(word))
    IN  u # <<>> /\ \A k \in 1..Len(u) : u[k] \in Digits

\* float(word) succeeds.  No word of the model spells an exponent, inf or nan.
IsFloat(word) ==
    LET u == Unsigned(Strip(word))
    IN  /\ \A k \in 1..Len(u) : u[k] \in Digits \cup {"."}
        /\ \E k \in 1..Len(u) : u[k] \in Digits
        /\ Cardinality({k \in 1..Len(u) : u[k] = "."}) <= 1

\* try: word = int(word) / except: try: word = float(word) / except: pass
Word(word) ==
    IF IsInt(word) THEN Atom("int", Strip(word))
    ELSE IF IsFloat(word) THEN Atom("float", Strip(word))
    ELSE Atom("str", word)

\* Sensitivity variant of the return: the list is returned as it is.
KeepList(l) == List(l)

\* if len(l) == 1: return l[0] / else: return l
Collapse(l) == IF Len(l) = 1 THEN l[1] ELSE List(l)

RECURSIVE Str2List(_)
RECURSIVE Scan(_, _)

\* The passes of "for i, c in enumerate(string)" from pass st.at on; st holds
\* the loop's i (as at), l, nbra, nket, begin and prevc.
Scan(string, st) ==
    IF st.at >= Len(string) THEN st.l
    ELSE
      LET at == st.at
          c == string[at + 1]
          begin == IF at = 0 /\ c # bra THEN at
                   ELSE IF /\ st.nbra = 0
                           /\ c \notin nonword
                           /\ st.prevc \in {bra, space} THEN at
                   ELSE IF c = bra /\ st.nbra = st.nket THEN at + 1
                   ELSE st.begin
          closes == /\ ~(at = 0 /\ c # bra)
                    /\ c = ket
                    /\ st.nbra = st.nket + 1
          l1 == IF closes
                THEN Append(st.l, Str2List(Slice(string, st.begin, at)))
                ELSE st.l
          l2 == IF at = Len(string) - 1 /\ c # ket
                THEN Append(l1, Word(Slice(string, begin, Len(string))))
                ELSE l1
          l3 == IF c = space /\ st.nbra = 0 /\ st.prevc \notin nonword
                THEN Append(l2, Word(Slice(string, begin, at)))
                ELSE l2
      IN  Scan(string,
               [at |-> at + 1,
                l |-> l3,
                nbra |-> IF c = bra THEN st.nbra + 1 ELSE st.nbra,
                nket |-> IF c = ket THEN st.nket + 1 ELSE st.nket,
                begin |-> begin,
                prevc |-> c])

Str2List(string) ==
    Collapse(Scan(string, [at |-> 0, l |-> <<>>, nbra |-> 0, nket |-> 0,
                           begin |-> 0, prevc |-> ""]))

\* -------------------------------------------------------- NaoRobot.perceive

\* What an indexing or a conversion raises.
Err(kind) == [kind |-> "error", text |-> <<kind>>, items |-> <<>>]
IsErr(x) == x.kind = "error"

\* x[k]: IndexError past the end, TypeError on a number.
Idx(x, k) ==
    IF IsErr(x) THEN x
    ELSE IF x.kind = "list"
    THEN IF k < Len(x.items) THEN x.items[k + 1] ELSE Err("IndexError")
    ELSE IF x.kind = "str"
    THEN IF k < Len(x.text) THEN Atom("str", <<x.text[k + 1]>>)
                            ELSE Err("IndexError")
    ELSE Err("TypeError")

\* x[1:]
Rest(x) ==
    IF IsErr(x) THEN x
    ELSE IF x.kind = "list" THEN List(SubSeq(x.items, 2, Len(x.items)))
    ELSE IF x.kind = "str" THEN Atom("str", SubSeq(x.text, 2, Len(x.text)))
    ELSE Err("TypeError")

\* What "for ... in x" yields when x is a list or a str.
Elems(x) ==
    IF x.kind = "list" THEN x.items
    ELSE [k \in 1..Len(x.text) |-> Atom("str", <<x.text[k]>>)]

\* x == 'name'
IsTag(x, name) == x.kind = "str" /\ x.text = name

TagTime == <<"t", "i", "m", "e">>
TagGS   == <<"G", "S">>
TagGYR  == <<"G", "Y", "R">>
TagACC  == <<"A", "C", "C">>
TagSee  == <<"S", "e", "e">>
TagHJ   == <<"H", "J">>
TagFRP  == <<"F", "R", "P">>

\* The fields of a GS record: which attribute of gamestate each one sets.
GsKey(f0) ==
    IF IsTag(f0, <<"s", "l">>) THEN "scoreLeft"
    ELSE IF IsTag(f0, <<"s", "r">>) THEN "scoreRight"
    ELSE IF IsTag(f0, <<"t">>) THEN "gametime"
    ELSE IF IsTag(f0, <<"p", "m">>) THEN "playmode"
    ELSE "none"

\* for field in perceptor[1:]: ... ; st is the robot state with its err.
RECURSIVE GsFields(_, _)
GsFields(fields, st) ==
    IF fields = <<>> THEN st
    ELSE LET f0 == Idx(Head(fields), 0)
             v == Idx(Head(fields), 1)
         IN  IF IsErr(f0) THEN [st EXCEPT !.err = f0.text[1]]
             ELSE IF GsKey(f0) = "none" THEN GsFields(Tail(fields), st)
             ELSE IF IsErr(v) THEN [st EXCEPT !.err = v.text[1]]
             ELSE GsFields(Tail(fields), [st EXCEPT !.gs[GsKey(f0)] = v])

\* for i in range(3): vec[i] = arg[i], from pass i on: the elements before a
\* failing one stay assigned.
RECURSIVE VecFrom(_, _, _)
VecFrom(vec, arg, k) ==
    IF k >= 3 THEN [val |-> vec, err |-> "none"]
    ELSE LET x == Idx(arg, k)
         IN  IF IsErr(x) THEN [val |-> vec, err |-> x.text[1]]
             ELSE IF x.kind \notin {"int", "float"}
             THEN [val |-> vec, err |-> "ValueError"]
             ELSE VecFrom([vec EXCEPT ![k + 1] = Atom("float", x.text)],
                          arg, k + 1)

\* ForceResistanceSensor.set: point[i] and force[i] are assigned in turn.
RECURSIVE FrpFrom(_, _, _, _)
FrpFrom(f, parg, farg, k) ==
    IF k >= 3 THEN [val |-> f, err |-> "none"]
    ELSE LET one(vec, arg) == VecFrom(vec, arg, 2)
             x == Idx(parg, k)
             y == Idx(farg, k)
             num(z) == z.kind \in {"int", "float"}
         IN  IF IsErr(x) THEN [val |-> f, err |-> x.text[1]]
             ELSE IF ~num(x) THEN [val |-> f, err |-> "ValueError"]
             ELSE LET f1 == [f EXCEPT !.point[k + 1] = Atom("float", x.text)]
                  IN  IF IsErr(y) THEN [val |-> f1, err |-> y.text[1]]
                      ELSE IF ~num(y) THEN [val |-> f1, err |-> "ValueError"]
                      ELSE FrpFrom([f1 EXCEPT !.force[k + 1] =
                                        Atom("float", y.text)],
                                   parg, farg, k + 1)

\* One pass of the body of "for perceptor in perceptors" on the robot state
\* st = [gs, hjv, sens, err].  The orientation that Gyroscope.set derives
\* from the rate, and the 9.81 that Accelerometer.set subtracts, are left out.
Dispatch(p, st) ==
    LET tag == Idx(p, 0)
        fail(e) == [st EXCEPT !.err = e.text[1]]
    IN  IF IsErr(tag) THEN fail(tag)
        ELSE IF IsTag(tag, TagTime)
        THEN LET v == Idx(Idx(p, 1), 1)
             IN  IF IsErr(v) THEN fail(v) ELSE [st EXCEPT !.gs.time = v]
        ELSE IF IsTag(tag, TagGS)
        THEN GsFields(Rest(p).items, st)
        ELSE IF IsTag(tag, TagGYR) \/ IsTag(tag, TagACC)
        THEN LET arg == Rest(Idx(p, 2))
                 which == IF IsTag(tag, TagGYR) THEN "gyr" ELSE "acc"
                 r == VecFrom(st.sens[which], arg, 0)
             IN  IF IsErr(arg) THEN fail(arg)
                 ELSE [st EXCEPT !.sens[which] = r.val, !.err = r.err]
        ELSE IF IsTag(tag, TagSee) THEN st
        ELSE IF IsTag(tag, TagHJ)
        THEN LET v == Idx(Idx(p, 2), 1)
                 key == Idx(Idx(p, 1), 1)
             IN  IF IsErr(v) THEN fail(v)
                 ELSE IF IsErr(key) THEN fail(key)
                 ELSE IF key.kind = "list" THEN fail(Err("TypeError"))
                 ELSE [st EXCEPT !.hjv =
                          [x \in DOMAIN st.hjv \cup {key} |->
                              IF x = key THEN v ELSE st.hjv[x]]]
        ELSE IF IsTag(tag, TagFRP)
        THEN LET key == Idx(Idx(p, 1), 1)
                 parg == Rest(Idx(p, 2))
                 farg == Rest(Idx(p, 3))
             IN  IF IsErr(key) THEN fail(key)
                 ELSE IF key.kind = "list" THEN fail(Err("TypeError"))
                 ELSE IF key.kind # "str" \/ key.text \notin DOMAIN st.sens.frp
                 THEN fail(Err("KeyError"))
                 ELSE IF IsErr(parg) THEN fail(parg)
                 ELSE IF IsErr(farg) THEN fail(farg)
                 ELSE LET r == FrpFrom(st.sens.frp[key.text], parg, farg, 0)
                      IN  [st EXCEPT !.sens.frp[key.text] = r.val,
                                     !.err = r.err]
        ELSE st

\* perceptors = self.pns.receive_perceptors(), with the message the server
\* sent encoded, decoded and parsed, and the iterator of line 655 made.
ReceiveMsg ==
    /\ ppc = "idle"
    /\ LET perceptors == Str2List(Decode(Encode(pmsg)))
       IN  /\ tree' = perceptors
           /\ IF perceptors.kind \in {"list", "str"}
              THEN /\ records' = Elems(perceptors)
                   /\ ppc' = "loop"
                   /\ UNCHANGED perr
              ELSE /\ records' = <<>>
                   /\ ppc' = "raised"
                   /\ perr' = "TypeError"
    /\ UNCHANGED <<pmsg, gs, hjv, sens, ndisp>>
    /\ UNCHANGED <<shared, locals, ghosts, dievars, netvars, movevars>>

\* One pass of "for perceptor in perceptors", or its end.
DispatchOne ==
    /\ ppc = "loop"
    /\ IF records = <<>>
       THEN /\ ppc' = "done"
            /\ UNCHANGED <<records, gs, hjv, sens, perr, ndisp>>
       ELSE LET r == Dispatch(Head(records),
                              [gs |-> gs, hjv |-> hjv, sens |-> sens,
                               err |-> "none"])
            IN  /\ gs' = r.gs
                /\ hjv' = r.hjv
                /\ sens' = r.sens
                /\ perr' = r.err
                /\ IF r.err = "none"
                   THEN /\ records' = Tail(records)
                        /\ ndisp' = ndisp + 1
                        /\ UNCHANGED ppc
                   ELSE /\ ppc' = "raised"
                        /\ UNCHANGED <<records, ndisp>>
    /\ UNCHANGED <<pmsg, tree>>
    /\ UNCHANGED <<shared, locals, ghosts, dievars, netvars, movevars>>

\* The messages of the server: every string of at most MaxStr characters out
\* of EnumChars, and some longer ones.
EnumChars == {"(", ")", " ", "a", "1"}
TimeMsg == <<"(", "t", "i", "m", "e", " ", "(", "n", "o", "w", " ",
             "1", "2", ".", "3", ")", ")">>
HjMsg == <<"(", "H", "J", " ", "(", "n", " ", "r", "l", "j", "3", ")",
           "(", "a", "x", " ", "-", "5", ".", "0", ")", ")">>
OddMsg == <<"(", "a", "b", " ", "1", ")">>
NumMsg == <<"(", "5", ")">>
FixedMsgs == {TimeMsg, HjMsg, TimeMsg \o HjMsg, OddMsg \o TimeMsg,
              NumMsg \o TimeMsg, HjMsg \o OddMsg \o TimeMsg}
Messages == UNION {[1..k -> EnumChars] : k \in 0..MaxStr} \cup FixedMsgs

NextPerceive ==
    \/ ReceiveMsg
    \/ DispatchOne

\* The agent when the server has sent one of the messages.
InitMessage == InitCore("unborn") /\ InitPerceive(Messages) /\ InitStill

SpecPerceive == InitMessage /\ [][NextPerceive]_vars

\* ------------------------------------------------------ NaoRobot.move_hj_to

\* Angles are counted in hundredths of a degree, speeds in percent and rates
\* in 1/100000 of a degree per cycle, so that every quantity of move_hj_to is
\* an integer; the rounding of the floats is left out.
maxhjSpeed == 7035
accuracy == 10

Abs(x) == IF x < 0 THEN -x ELSE x

\* Sensitivity variant of the cap: the speed is not bounded by the distance.
Uncapped(speed, diff) == speed

\* if abs(speed) > abs(diff)/4.0: speed = abs(diff)/4.0
Capped(speed, diff) ==
    IF Abs(speed) > Abs(diff) * 250 THEN Abs(diff) * 250 ELSE speed

\* The arguments and the angles that the calls of the model use.
AngleArgs == {None} \cup {<<a>> : a \in {-13000, -2500, 0, 5, 1000, 4000, 13000}}
PercentArgs == {None} \cup {<<p>> : p \in {-10, 10, 50, 110}}
SpeedArgs == {-10, 0, 25, 100, 150}
CurAngles == {-2600, 0, 5, 11, 4000}

\* The joint hj stands at some angle and move_hj_to is about to be called.
InitJoints ==
    /\ margs \in [hj : MoveJoints, angle : AngleArgs, percent : PercentArgs,
                  speed : SpeedArgs, cur : CurAngles]
    /\ mhj = [j \in MoveJoints |-> IF j = margs.hj THEN margs.cur ELSE 0]
    /\ mhe = [e \in {hjEffector(j) : j \in MoveJoints} |-> 0]
    /\ mcmd = <<>>
    /\ mret = "none"

\* move_hj_to(hj, angle, percent, speed), from its call to its return.
MoveHjTo ==
    /\ mret = "none"
    /\ LET hj == margs.hj
           e == hjEffector(hj)
           angle0 == IF margs.angle # None THEN margs.angle[1]
                     ELSE hjMin(hj)
                            + (margs.percent[1] * (hjMax(hj) - hjMin(hj)))
                                 \div 100
           angle == IF angle0 > hjMax(hj) THEN hjMax(hj)
                    ELSE IF angle0 < hjMin(hj) THEN hjMin(hj)
                    ELSE angle0
           speed0 == IF margs.speed > 100 THEN 100
                     ELSE IF margs.speed < 0 THEN 0
                     ELSE margs.speed
           speed == speed0 * maxhjSpeed
           diff == mhj[hj] - angle
           rate == IF mhj[hj] < angle THEN Abs(Capped(speed, diff))
                   ELSE -Abs(Capped(speed, diff))
       IN  IF margs.angle = None /\ margs.percent = None
           THEN /\ mret' = "Exception"
                /\ UNCHANGED <<mhe, mcmd>>
           ELSE IF Abs(diff) <= accuracy
           THEN /\ mcmd' = Append(mcmd, [name |-> e, rate |-> 0])
                /\ mhe' = [mhe EXCEPT ![e] = 0]
                /\ mret' = "done"
           ELSE /\ IF mhj[hj] # angle
                   THEN /\ mcmd' = Append(mcmd, [name |-> e, rate |-> rate])
                        /\ mhe' = [mhe EXCEPT ![e] = rate]
                   ELSE UNCHANGED <<mhe, mcmd>>
                /\ mret' = "not done"
    /\ UNCHANGED <<margs, mhj>>
    /\ UNCHANGED <<shared, locals, ghosts, dievars, netvars, pervars>>

NextMove == MoveHjTo

InitMove == InitCore("unborn") /\ InitPerceive({<<>>}) /\ InitJoints

SpecMove == InitMove /\ [][NextMove]_vars

\* ------------------------------------------------------------------ claims

HasHj(it)  == it.hj # NoKey
HasCell(it) == it.len = 3 /\ it.third # <<>>
CellOf(it) == it.third[1]
InAppend(t) == pc[t] \in {"iter", "push"}
AppendEnds(t) == InAppend(t) /\ pc'[t] \notin {"iter", "push"}
Accepted(id) == \E k \in 1..Len(acc) : acc[k] = id
Rank(id) == CHOOSE k \in 1..Len(acc) : acc[k] = id
InQueue(id) == \E k \in 1..Len(queue) : queue[k].id = id
IsPrefix(s, q) == Len(s) <= Len(q) /\ \A k \in 1..Len(s) : s[k] = q[k]
Rising(s) == \A a, b \in 1..Len(s) : a < b => Rank(s[a]) < Rank(s[b])

\* Some item of q has the function of it, and both carry the same 'hj'.
InConflict(q, it) ==
    \E k \in 1..Len(q) :
        q[k].fn = it.fn /\ HasHj(q[k]) /\ HasHj(it) /\ q[k].hj = it.hj

\* The last call of t was run(), and it has ended.
RunEnded(t) ==
    pc[t] = "idle" /\ outcome[t].at \in {"run", "step", "requeue", "flag", "pop"}

C2_OneTaskPerJoint ==
    \A a, b \in 1..Len(queue) :
        (a # b /\ HasHj(queue[a])) => queue[a].hj # queue[b].hj

\* C3: a call of run() steps each item that was in the queue when the call
\* began exactly once, in order, and no other item (calls in which a task
\* body itself raised are left aside).
C3_OneStepEach ==
    \A t \in Threads :
        (RunEnded(t) /\ outcome[t].at # "step") => stepped[t] = startq[t]

Undisturbed == ~aborted /\ \A id \in 1..Len(made) : made[id].from = "call"

C5_State ==
    /\ \A t \in Threads : IsPrefix(stepped[t], startq[t])
    /\ Undisturbed =>
          /\ \A t \in Threads : Rising(stepped[t]) /\ Rising(startq[t])
          /\ pc["main"] = "idle" => Rising(Ids(queue))

C5_Action ==
    \/ queue' = queue
    \/ queue # <<>> /\ queue' = Tail(queue)
          /\ \E t \in Threads : cur'[t] = Head(queue) /\ pc'[t] = "step"
    \/ \E t \in Threads : queue' = Append(queue, new[t])

Unshared(id) ==
    \A o \in 1..Len(made) :
        (o # id /\ Accepted(o) /\ HasCell(made[o].item))
            => CellOf(made[o].item) # CellOf(made[id].item)

C6_State ==
    \A id \in 1..Len(made) :
        LET it == made[id].item
        IN  /\ ndone[id] > 0 =>
                  /\ ~InQueue(id)
                  /\ HasCell(it) =>
                        \/ cells[CellOf(it)]
                        \/ \E t \in Threads : pc[t] = "flag" /\ cur[t].id = id
            /\ (HasCell(it) /\ Unshared(id) /\ cells[CellOf(it)]) => ndone[id] > 0

C6_Action ==
    \A t \in Threads :
        /\ (pc[t] = "step" /\ pc'[t] = "requeue") => cells' = cells
        /\ (pc[t] = "requeue" /\ pc'[t] # "requeue") =>
              pc'[t] = "iter" /\ new'[t] = cur[t] /\ UNCHANGED <<queue, cells>>
        /\ (ret[t] = "requeue" /\ AppendEnds(t)) =>
              /\ pc'[t] = "pop"
              /\ queue' = Append(queue, new[t])
              /\ cells' = cells

\* C6: an item whose step returned "done" is out of the queue and, if it
\* carries a flag cell, the cell is true once the pass of run() that stepped
\* it is over; an item whose step returned anything else is put at the end of
\* the queue with the cells as they were; a cell that no other item shares is
\* true only if the body of its item has returned "done".
C6_DoneAndRequeue ==
    []C6_State /\ [][C6_Action]_vars

\* A flagged item has completed in a call that requeued another item.
C6_Witness ==
    /\ RunEnded("main")
    /\ cells["done"]
    /\ Len(queue) = 1
    /\ \E id \in 1..Len(made) :
          ndone[id] = 1 /\ HasCell(made[id].item) /\ Unshared(id)

\* The format rules of append, as the documentation lists them.
BadFormat(it) ==
    \/ ~it.isList
    \/ it.len \notin {2, 3}
    \/ ~it.callable
    \/ ~it.kwDict
    \/ (it.len = 3 /\ ~it.thirdList)

\* C8: append raises QueueItemError for exactly the items that break the
\* format, before it looks at the queue, so that such an item is never
\* reported as a conflict; a well-formed item never ends in QueueItemError.
C8_FormatFirst ==
    [][/\ \A it \in CallerItems :
             LET x == [it EXCEPT !.id = Len(made) + 1]
             IN  CallAppend("main", x) =>
                    /\ BadFormat(x) <=>
                          /\ outcome'["main"] = Exc("QueueItemError", "call")
                          /\ pc'["main"] = "idle"
                    /\ ~BadFormat(x) => pc'["main"] = "iter"
       /\ \A t \in Threads :
             (AppendEnds(t) /\ outcome'[t] # outcome[t]) =>
                outcome'[t].kind # "QueueItemError"]_vars

\* A malformed item was rejected while the queue held an item.
C8_Witness ==
    /\ outcome["main"] = Exc("QueueItemError", "call")
    /\ pc["main"] = "idle"
    /\ Len(queue) = 1

\* C9: no step of an append before its push changes the queue, the cells,
\* the effector rates or alive; a rejected append never reaches its push.
C9_RejectNoEffect ==
    [][\A t \in Threads :
          /\ (pc[t] = "iter" /\ pc'[t] # "push" /\ <<pc[t], idx[t]>>' # <<pc[t], idx[t]>>)
                => UNCHANGED <<queue, cells, he, alive>>
          /\ (pc[t] = "idle" /\ nappends' # nappends /\ pc'[t] = "idle")
                => UNCHANGED <<queue, cells, he, alive>>
          /\ (outcome'[t].kind \in {"QueueItemError", "SchedulerConflict"}
              /\ outcome'[t] # outcome[t])
                => UNCHANGED <<queue, cells, he, alive>>]_vars

\* A conflict was reported to the caller after a call of run() had stepped
\* the queued item and commanded a rate.
C9_Witness ==
    /\ outcome["main"] = Exc("SchedulerConflict", "call")
    /\ pc["main"] = "idle"
    /\ nappends = MaxAppends
    /\ he["raj1"] = 1
    /\ queue # <<>>

\* Item id is in the queue or in the hands of a context that popped it.
InSystem(id) ==
    \/ InQueue(id)
    \/ \E t \in Threads :
          /\ cur[t].id = id
          /\ \/ pc[t] \in {"step", "requeue", "flag"}
             \/ InAppend(t) /\ ret[t] \in {"step", "requeue"}

\* C4: with append called in one context while run() executes in the other,
\* no iteration over the deque fails because the deque changed, no re-append
\* of a not-yet-done item is rejected, no item is in the queue twice, and
\* (as long as no task body or flag write has raised) every accepted item that
\* has not reported done is in the queue or being stepped.
C4_ConcurrentAppendSafe ==
    /\ \A t \in Threads :
          /\ outcome[t].kind # "RuntimeError"
          /\ outcome[t] # Exc("SchedulerConflict", "requeue")
    /\ \A a, b \in 1..Len(queue) : a # b => queue[a].id # queue[b].id
    /\ (\A t \in Threads : outcome[t].at \notin {"step", "flag", "pop"}) =>
          \A id \in 1..Len(made) :
              (Accepted(id) /\ ndone[id] = 0) => InSystem(id)

\* C7: when every accepted item was appended by the caller before the first
\* run(), is a move_hj_to on a joint and needs exactly k steps, then every one
\* of the first k calls of run() steps each of them once, none has reported
\* done before the k-th call, and after the k-th call the queue is empty and
\* each has reported done exactly once.
C7_FairRounds ==
    \A k \in 1..MaxRuns :
        ( /\ RunEnded("main")
          /\ ncalls \in 1..k
          /\ acc # <<>>
          /\ \A id \in 1..Len(made) :
                /\ Accepted(id)
                /\ made[id].from = "call"
                /\ made[id].item.fn = "move_hj_to"
                /\ HasHj(made[id].item)
                /\ made[id].item.need = k )
        => /\ stepped["main"] = acc
           /\ ncalls < k => (Ids(queue) = acc /\ \A id \in 1..Len(made) : ndone[id] = 0)
           /\ ncalls = k => (queue = <<>> /\ \A id \in 1..Len(made) : ndone[id] = 1)

\* Context t is inside the perceive-then-run cycle of live().
InCycle(t) == inlive[t] /\ pc[t] \notin {"live", "setalive"}

\* C10: at most one context is inside the cycle of live() at a time.
C10_OneLoop ==
    \A t, u \in Threads : (InCycle(t) /\ InCycle(u)) => t = u

InDie(t) == pc[t] \in {"diewait", "diestop", "join", "close"}

\* C11: every call of die() returns, with the thread of the loop ended.
C11_DieReturns ==
    InDie("main") ~> (~InDie("main") /\ pc["life"] \in {"exit", "dead"})

\* C12: when die() tells the loop to stop while its timeout has not expired
\* (line 640), no task that has not reported done is in the queue or popped.
C12_StopsWhenDrained ==
    [][\A t \in Threads :
          (pc[t] = "diewait" /\ pc'[t] = "diestop" /\ tmo' = "running") =>
             \A id \in 1..Len(made) : InSystem(id) => ndone[id] > 0]_vars

\* C13: once a die() call has returned, the socket has been closed exactly
\* once.
C13_ClosedOnce ==
    (ndies > 0 /\ ~InDie("main")) => nclose = 1

\* C14: when a recv() has returned no bytes before the count was reached,
\* _receive_message has failed.
C14_ClosedFails ==
    zeroread => rpc = "failed"

\* An unsigned 32-bit integer in network order.
NetworkOrder(len) ==
    <<(len \div 16777216) % 256, (len \div 65536) % 256,
      (len \div 256) % 256, len % 256>>

RECURSIVE Frames(_)
Frames(log) ==
    IF log = <<>> THEN <<>>
    ELSE NetworkOrder(Len(Head(log))) \o Encode(Head(log)) \o Frames(Tail(log))

\* C15: the bytes written are the frames of the messages sent, each a 4-byte
\* big-endian length and the message's bytes; the messages received are the
\* first messages sent, whole and in order; and each receive consumes whole
\* frames only.
C15_RoundTrip ==
    /\ IsPrefix(written, Frames(sentlog))
    /\ spc = "idle" => written = Frames(sentlog)
    /\ IsPrefix(rcvdlog, sentlog)
    /\ rpc = "idle" => written = Frames(rcvdlog) \o wire

\* After one message was received whole, a second and different one is
\* partly written and partly read.
C15_Witness ==
    /\ Len(rcvdlog) = 1
    /\ Len(sentlog) = 2
    /\ sentlog[1] # sentlog[2]
    /\ spc = "body"
    /\ rpc = "body"
    /\ Len(rbuf) > 0
    /\ Len(rbuf) < rwant
    /\ wire = <<>>

\* The nesting depth after the first k characters of s.
Depth(s, k) ==
    Cardinality({j \in 1..k : s[j] = bra}) - Cardinality({j \in 1..k : s[j] = ket})

Balanced(s) ==
    /\ Depth(s, Len(s)) = 0
    /\ \A k \in 1..Len(s) : Depth(s, k) >= 0

\* s is a row of parenthesised records with nothing between them.
RecordsOnly(s) ==
    /\ Balanced(s)
    /\ \A k \in 1..Len(s) : Depth(s, k - 1) = 0 => s[k] = bra

NRecords(s) == Cardinality({k \in 1..Len(s) : Depth(s, k) = 0})

KnownTags == {TagTime, TagGS, TagGYR, TagACC, TagHJ, TagFRP, TagSee}

\* The parsed record p has a leading element, and it is none of the tags.
UnknownTag(p) ==
    LET lead == IF p.kind = "list" THEN p.items[1] ELSE p
    IN  /\ p.kind = "list" => p.items # <<>>
        /\ ~(lead.kind = "str" /\ lead.text \in KnownTags)

\* C16: in a message of two or more records, the pass of the loop over a
\* record whose leading tag is unknown raises nothing, changes nothing of
\* the robot's state and goes on to the next record.
C16_UnknownIgnored ==
    [][(/\ ppc = "loop"
        /\ records # <<>>
        /\ RecordsOnly(pmsg)
        /\ NRecords(pmsg) >= 2
        /\ UnknownTag(Head(records)))
       => (/\ perr' = "none"
           /\ ppc' = "loop"
           /\ records' = Tail(records)
           /\ UNCHANGED <<gs, hjv, sens>>)]_vars

\* The record rec stands among the records of the message s.
Holds(s, rec) ==
    /\ RecordsOnly(s)
    /\ \E k \in 1..Len(s) :
          /\ Depth(s, k - 1) = 0
          /\ k + Len(rec) - 1 <= Len(s)
          /\ SubSeq(s, k, k + Len(rec) - 1) = rec

\* C17: when perceive() has returned from a message that holds the record
\* (time (now 12.3)), the time is 12.3, and from one that holds the record
\* (HJ (n rlj3)(ax -5.0)), the angle of rlj3 is -5.0.
C17_EndToEnd ==
    ppc = "done" =>
       /\ Holds(pmsg, TimeMsg) =>
             gs.time = Atom("float", <<"1", "2", ".", "3">>)
       /\ Holds(pmsg, HjMsg) =>
             hjv[Atom("str", <<"r", "l", "j", "3">>)] =
                Atom("float", <<"-", "5", ".", "0">>)

\* No list of the tree x has exactly one element.
RECURSIVE NoSingleton(_)
NoSingleton(x) ==
    x.kind = "list" =>
       /\ Len(x.items) # 1
       /\ \A k \in 1..Len(x.items) : NoSingleton(x.items[k])

\* C18: the tree that the parser returns has no list of one element at any
\* level, and "(a)" and "((a))" both parse to the bare a.
C18_Collapsed ==
    ppc # "idle" =>
       /\ NoSingleton(tree)
       /\ pmsg \in {<<"(", "a", ")">>, <<"(", "(", "a", ")", ")">>} =>
             tree = Atom("str", <<"a">>)

\* The message "((a))" has been parsed to the bare a.
C18_Witness ==
    /\ ppc # "idle"
    /\ pmsg = <<"(", "(", "a", ")", ")">>
    /\ tree = Atom("str", <<"a">>)

\* The tokens of s: its longest runs of characters that are neither a space
\* nor a parenthesis, from left to right.
RECURSIVE Tokens(_)
Tokens(s) ==
    IF s = <<>> THEN <<>>
    ELSE IF Head(s) \in nonword THEN Tokens(Tail(s))
    ELSE LET e == CHOOSE e \in 1..Len(s) :
                     /\ \A j \in 1..e : s[j] \notin nonword
                     /\ e = Len(s) \/ s[e + 1] \in nonword
         IN  <<SubSeq(s, 1, e)>> \o Tokens(SubSeq(s, e + 1, Len(s)))

\* The leaves of the tree x, from left to right.
RECURSIVE Leaves(_)
RECURSIVE LeavesOf(_)
Leaves(x) == IF x.kind = "list" THEN LeavesOf(x.items) ELSE <<x>>
LeavesOf(items) ==
    IF items = <<>> THEN <<>>
    ELSE Leaves(Head(items)) \o LeavesOf(Tail(items))

\* s is spaced as the messages of the server are: one space stands between
\* a token and the token or list after it and between a list and the token
\* after it, and nowhere else.
WellSpaced(s) ==
    \A k \in 1..Len(s) :
       /\ s[k] = space =>
             /\ k > 1
             /\ k < Len(s)
             /\ s[k - 1] \notin {space, bra}
             /\ s[k + 1] \notin {space, ket}
       /\ (s[k] = bra /\ k > 1) => s[k - 1] \in nonword
       /\ (s[k] = ket /\ k < Len(s)) => s[k + 1] \in nonword

\* C19: of a balanced message, the leaves of the parsed tree are the tokens
\* of the message, each once and in order; no leaf holds a space or a
\* parenthesis; a leaf is an int when int() reads it, else a float when
\* float() reads it, else a str.
C19_TokensAreLeaves ==
    (ppc # "idle" /\ Balanced(pmsg) /\ WellSpaced(pmsg)) =>
       LET lv == Leaves(tree)
       IN  /\ [k \in 1..Len(lv) |-> lv[k].text] = Tokens(pmsg)
           /\ \A k \in 1..Len(lv) :
                 /\ \A j \in 1..Len(lv[k].text) : lv[k].text[j] \notin nonword
                 /\ lv[k].kind = IF IsInt(lv[k].text) THEN "int"
                                 ELSE IF IsFloat(lv[k].text) THEN "float"
                                 ELSE "str"

\* The target of the call: the angle, or the percent of the joint's range,
\* brought into the joint's range.
Target(a) ==
    LET lo == hjMin(a.hj)
        hi == hjMax(a.hj)
        t == IF a.angle # None THEN a.angle[1]
             ELSE lo + (a.percent[1] * (hi - lo)) \div 100
    IN  IF t > hi THEN hi ELSE IF t < lo THEN lo ELSE t

\* The speed percent of the call brought into 0..100.
SpeedPercent(a) ==
    IF a.speed > 100 THEN 100 ELSE IF a.speed < 0 THEN 0 ELSE a.speed

\* C20: a call of move_hj_to that returns has commanded one rate to the
\* joint's effector.  When the joint is within 0.1 degree of the clamped
\* target, the rate commanded and recorded is 0 and 'done' is returned.
\* Otherwise 'not done' is returned, the rate never points away from the
\* target, and it is at most the clamped speed percent of 7.035 and at most
\* a quarter of the distance.
C20_OneStep ==
    mret \in {"done", "not done"} =>
       LET e == hjEffector(margs.hj)
           dist == Abs(margs.cur - Target(margs))
       IN  /\ Len(mcmd) = 1
           /\ mcmd[1].name = e
           /\ IF dist <= 10
              THEN /\ mret = "done"
                   /\ mcmd[1].rate = 0
                   /\ mhe[e] = 0
              ELSE /\ mret = "not done"
                   /\ Target(margs) > margs.cur => mcmd[1].rate >= 0
                   /\ Target(margs) < margs.cur => mcmd[1].rate <= 0
                   /\ Abs(mcmd[1].rate) <= SpeedPercent(margs) * 7035
                   /\ 4 * Abs(mcmd[1].rate) <= dist * 1000

\* rlj3 at 40 degrees is sent to 130 degrees at speed 150: the target is
\* clamped to 100 degrees, the speed to 100 percent, and 7.035 is commanded.
C20_Witness ==
    /\ margs = [hj |-> "rlj3", angle |-> <<13000>>, percent |-> None, speed |-> 150,
                cur |-> 4000]
    /\ mret = "not done"
    /\ mcmd = <<[name |-> "rle3", rate |-> 703500]>>
    /\ mhe["rle3"] = 703500

\* C21: the step of a move_hj_by task on a joint calls append for a
\* move_hj_to item of the same joint; that append ends by putting the item at
\* the back of the queue, whatever the queue holds, and the step then returns
\* "done", so that the move_hj_by item is not put back.
C21_MoveByEnqueues ==
    [][\A t \in Threads :
          /\ (/\ pc[t] = "step"
              /\ pc'[t] # "step"
              /\ cur[t].fn = "move_hj_by"
              /\ HasHj(cur[t]))
             => /\ pc'[t] = "iter"
                /\ ret'[t] = "step"
                /\ new'[t].fn = "move_hj_to"
                /\ new'[t].hj = cur[t].hj
          /\ (ret[t] = "step" /\ AppendEnds(t))
             => /\ pc[t] = "push"
                /\ queue' = Append(queue, new[t])
                /\ pc'[t] = "flag"
                /\ ndone'[cur[t].id] = ndone[cur[t].id] + 1
                /\ ~\E k \in 1..Len(queue') : queue'[k].id = cur[t].id]_vars

\* C22: while no call of append or run() is in progress, every accepted item
\* none of whose steps has returned "done" is in the queue.
C22_LeavesOnlyDone ==
    pc["main"] = "idle" =>
       \A id \in 1..Len(made) :
           (Accepted(id) /\ ndone[id] = 0) => InQueue(id)

NoRepeat(s) == \A a, b \in 1..Len(s) : a # b => s[a] # s[b]

\* The order of one cycle of live(): the message is received and dispatched
\* after the test of the while, run() begins after that and with nothing
\* stepped, and the while is tested again when run() has ended.
C23_Action ==
    \A t \in Threads :
        inlive[t] =>
           /\ (pc'[t] = "perceive" /\ pc[t] # "perceive") => pc[t] = "while"
           /\ (pc'[t] = "run" /\ pc[t] # "run") => pc[t] = "perceive"
           /\ (pc[t] = "run" /\ pc'[t] # "run") =>
                 pc'[t] = "pop" /\ stepped'[t] = <<>>
           /\ (pc'[t] = "while" /\ pc[t] \notin {"while", "setalive"}) =>
                 pc[t] = "pop"

\* C23: in the loop of live() each run() follows the receipt and dispatch of
\* one message and ends before the next message is received, and the run()
\* of one cycle steps no task twice.
C23_CycleOrder ==
    /\ [][C23_Action]_vars
    /\ [](\A t \in Threads : inlive[t] => NoRepeat(stepped[t]))

\* C24: when the thread of the loop has ended and no context is inside
\* live(), alive is false.
C24_AliveReflectsLoop ==
    (pc["life"] \in {"exit", "dead"} /\ \A t \in Threads : ~inlive[t])
        => ~alive

\* C25: when a flag cell is true, every accepted item that carries the cell
\* has reported done and is out of the queue.
C25_SharedFlagAll ==
    \A c \in Cells :
        cells[c] =>
           \A id \in 1..Len(made) :
               (Accepted(id) /\ HasCell(made[id].item)
                   /\ CellOf(made[id].item) = c)
                 => (ndone[id] > 0 /\ ~InSystem(id))

\* C26: when the body of an accepted item has returned "done", run() sets
\* the flag of the item if its third element is there, and goes on with its
\* next pass.
C26_CompletionNeverRaises ==
    [][\A t \in Threads :
          (pc[t] = "flag" /\ pc'[t] # "flag") =>
             /\ pc'[t] = "pop"
             /\ cur[t].len = 3 =>
                   \E c \in Cells : cur[t].third = <<c>> /\ cells'[c]]_vars

\* A context uses the socket: perceive() receives, a task body sends.
UsesSocket(t) ==
    /\ pc[t] \in {"perceive", "step"}
    /\ pc'[t] # pc[t]

\* C27: the socket is closed only when the thread of the loop has ended, and
\* once it is closed no context receives or sends on it.
C27_CloseAfterLoop ==
    /\ [](nclose > 0 => pc["life"] \in {"exit", "dead"})
    /\ [][/\ nclose' # nclose => pc["life"] \in {"exit", "dead"}
          /\ nclose > 0 => \A t \in Threads : ~UsesSocket(t)]_vars

\* die() has returned with the socket closed after the loop had commanded a
\* rate to a joint.
C27_Witness ==
    /\ nclose = 1
    /\ pc["main"] = "idle"
    /\ pc["life"] = "exit"
    /\ he["raj1"] = 1

====
